---- MODULE Spec2Model ----
(***************************************************************************)
(* Model of cli_flag.go: the CLIFlag declaration (name, alias, helpValue,  *)
(* desc, nflags bitmask) and its operations GetHelpLine, IsRequireValue    *)
(* and ValidateValue.  Strings are sequences of one-character strings.     *)
(* The filesystem entry a path value names is an input of ValidateValue;   *)
(* every call the function makes to the os, json and regexp packages is    *)
(* recorded in the variable calls.                                         *)
(***************************************************************************)
EXTENDS Integers, Sequences, FiniteSets, TLC

\* ---- bounds of the model ------------------------------------------------
\* largest number of option bits OR-ed into one nflags value
MaxBits == 3
\* longest value string of the pattern specifications
MaxLen == 3

\* ---- option bits (const block) -----------------------------------------
Required == 1
TypeString == 8
TypePathFile == 16
TypeBool == 32
TypeInt == 64
TypeFloat == 128
TypeAlphanumeric == 256
MustExist == 512
AllowMany == 1024
ManySeparatorColon == 2048
ManySeparatorSemiColon == 4096
AllowDots == 8192
AllowUnderscore == 16384
AllowHyphen == 32768
TypeEmail == 65536
TypeFQDN == 131072
TypePathDir == 262144
TypePathRegularFile == 524288
ValidJSON == 1048576

\* c.nflags&bit > 0
Has(nflags, bit) == (nflags \div bit) % 2 = 1

\* ---- string literals of the source -------------------------------------
sBoth == <<"B", "o", "t", "h", " ", "-">>
sAndName == <<" ", "a", "n", "d", " ", "-", "-">>
sPassed == <<" ", "p", "a", "s", "s", "e", "d">>
sFlag == <<"F", "l", "a", "g">>
sArgument == <<"A", "r", "g", "u", "m", "e", "n", "t">>
sSpace == <<" ">>
sIsMissing == <<" ", "i", "s", " ", "m", "i", "s", "s", "i", "n", "g">>
sFile == <<"F", "i", "l", "e", " ">>
sFrom == <<" ", "f", "r", "o", "m", " ">>
sDoesNotExist == <<" ", "d", "o", "e", "s", " ", "n", "o", "t", " ", "e", "x", "i", "s", "t">>
sPath == <<"P", "a", "t", "h", " ">>
sNotRegular == <<" ", "i", "s", " ", "n", "o", "t", " ", "a", " ", "r", "e", "g", "u", "l", "a", "r", " ", "f", "i", "l", "e">>
sCannotBeOpened == <<" ", "c", "a", "n", "n", "o", "t", " ", "b", "e", " ", "o", "p", "e", "n", "e", "d">>
sNotValidJSON == <<" ", "i", "s", " ", "n", "o", "t", " ", "a", " ", "v", "a", "l", "i", "d", " ", "J", "S", "O", "N">>
sDirectory == <<"D", "i", "r", "e", "c", "t", "o", "r", "y", " ">>
sNotDirectory == <<" ", "i", "s", " ", "n", "o", "t", " ", "a", " ", "d", "i", "r", "e", "c", "t", "o", "r", "y">>
sHasInvalidValue == <<" ", "h", "a", "s", " ", "i", "n", "v", "a", "l", "i", "d", " ", "v", "a", "l", "u", "e">>
sHelpLead == <<" ">>
sHelpNoAlias == <<" ", "\t">>
sHelpDash == <<" ", "-">>
sHelpCommaTab == <<",", "\t">>
sHelpDashDash == <<" ", "-", "-">>
sHelpSpaceTab == <<" ", "\t">>
sHelpNewline == <<"\n">>

\* ---- character classes of the patterns ---------------------------------
Digits == {"0", "1", "2", "3", "4", "5", "6", "7", "8", "9"}
LowerCase == {"a", "b", "c", "d", "e", "f", "g", "h", "i", "j", "k", "l", "m",
              "n", "o", "p", "q", "r", "s", "t", "u", "v", "w", "x", "y", "z"}
UpperCase == {"A", "B", "C", "D", "E", "F", "G", "H", "I", "J", "K", "L", "M",
              "N", "O", "P", "Q", "R", "S", "T", "U", "V", "W", "X", "Y", "Z"}
AlphaNum == Digits \cup LowerCase \cup UpperCase
\* {1,16} of the float pattern
FloatMaxDigits == 16

\* ---- results ------------------------------------------------------------
\* error(nil)
Nil == [kind |-> "nil", msg |-> <<>>]
\* errors.New(msg)
NewError(m) == [kind |-> "error", msg |-> m]
\* run-time panic: a method called on a nil os.FileInfo
Panic == [kind |-> "panic", msg |-> <<>>]
NoValue == [kind |-> "none", msg |-> <<>>]

\* ---- the operating system ----------------------------------------------
\* What a path names.  kind: "none" (nothing there), "regular", "dir",
\* "special" (device, socket, pipe).  reachable is FALSE when the walk to
\* the entry fails (a component is not searchable, is not a directory, or
\* the name is too long): stat then fails with an error other than ENOENT.
\* readable and validJSON describe the contents of a regular file.
Entry(k, rch, rd, js) == [kind |-> k, reachable |-> rch, readable |-> rd, validJSON |-> js]
Entries ==
  {Entry(k, rch, FALSE, FALSE) : k \in {"none", "dir", "special"}, rch \in BOOLEAN}
  \cup {Entry("regular", rch, FALSE, FALSE) : rch \in BOOLEAN}
  \cup {Entry("regular", rch, TRUE, js) : rch \in BOOLEAN, js \in BOOLEAN}

\* os.Stat(v): (FileInfo, error); info is nil whenever err is not nil
osStat(e) ==
  IF ~e.reachable THEN [info |-> "nil", err |-> "other"]
  ELSE IF e.kind = "none" THEN [info |-> "nil", err |-> "ENOENT"]
  ELSE [info |-> e.kind, err |-> "nil"]
\* os.IsNotExist(err)
osIsNotExist(err) == err = "ENOENT"
\* os.ReadFile(v): (data, error)
osReadFile(e) ==
  IF e.reachable /\ e.kind = "regular" /\ e.readable
  THEN [dat |-> e.validJSON, err |-> "nil"]
  ELSE [dat |-> FALSE, err |-> "other"]
\* json.Valid(dat): the contents are a blob that is or is not JSON
jsonValid(dat) == dat

\* ---- regular expressions -----------------------------------------------
\* atoms of the patterns the function builds
RePlus(cls) == [op |-> "repeat", class |-> cls, min |-> 1, max |-> -1]
ReRange(cls, lo, hi) == [op |-> "repeat", class |-> cls, min |-> lo, max |-> hi]
ReLit(ch) == [op |-> "repeat", class |-> {ch}, min |-> 1, max |-> 1]

AllIn(s, cls) == \A i \in 1..Len(s) : s[i] \in cls
MatchAtom(a, s) ==
  /\ Len(s) >= a.min
  /\ (a.max < 0 \/ Len(s) <= a.max)
  /\ AllIn(s, a.class)

RECURSIVE MatchAtoms(_, _)
\* s is exactly a concatenation of matches of the atoms
MatchAtoms(atoms, s) ==
  IF atoms = <<>> THEN s = <<>>
  ELSE \E k \in 0..Len(s) :
         /\ MatchAtom(Head(atoms), SubSeq(s, 1, k))
         /\ MatchAtoms(Tail(atoms), SubSeq(s, k + 1, Len(s)))

RECURSIVE MatchStar(_, _)
\* s is zero or more matches of the group (a group here never matches "")
MatchStar(group, s) ==
  \/ s = <<>>
  \/ \E k \in 1..Len(s) :
       /\ MatchAtoms(group, SubSeq(s, 1, k))
       /\ MatchStar(group, SubSeq(s, k + 1, Len(s)))

\* regexp.MatchString(reValue, v): (matched, error).  reValue is
\* "^" first "(" group ")*$" when star, "^" first "$" otherwise.
regexpMatchString(re, s) ==
  [m |-> \E k \in 0..Len(s) :
            /\ MatchAtoms(re.first, SubSeq(s, 1, k))
            /\ IF re.star THEN MatchStar(re.group, SubSeq(s, k + 1, Len(s)))
                          ELSE k = Len(s),
   err |-> "nil"]

\* ---- CLIFlag ------------------------------------------------------------
\* NewCLIFlag(n, a, hv, d, nf, fn); fn is never touched by these methods
NewCLIFlag(n, a, hv, d, nf) ==
  [name |-> n, alias |-> a, helpValue |-> hv, desc |-> d, nflags |-> nf]

\* GetHelpLine
GetHelpLine(f) ==
  (IF f.alias = <<>> THEN sHelpLead \o sHelpNoAlias
   ELSE sHelpLead \o sHelpDash \o f.alias \o sHelpCommaTab)
  \o sHelpDashDash \o f.name \o sSpace \o f.helpValue \o sHelpSpaceTab
  \o f.desc \o sHelpNewline

\* IsRequireValue
IsRequireValue(f) ==
  \/ Has(f.nflags, TypeString)
  \/ Has(f.nflags, TypePathFile)
  \/ Has(f.nflags, TypePathRegularFile)
  \/ Has(f.nflags, TypePathDir)
  \/ Has(f.nflags, TypeInt)
  \/ Has(f.nflags, TypeFloat)
  \/ Has(f.nflags, TypeAlphanumeric)

\* ---- ValidateValue, piece by piece -------------------------------------
\* variant: the same value passed in both forms is let through
BothPassedUnlessEqual(nz, az) == nz # <<>> /\ az # <<>> /\ nz # az
\* nz != "" && az != ""
BothPassed(nz, az) == nz # <<>> /\ az # <<>>
\* "Both -%s and --%s passed"
BothPassedMessage(f) == sBoth \o f.alias \o sAndName \o f.name \o sPassed

Label(isArg) == IF isArg THEN sArgument ELSE sFlag
\* variant: the name is shown for positional arguments too
NLabelAlwaysName(f, isArg) == f.name
NLabel(f, isArg) == IF isArg THEN f.helpValue ELSE f.name

\* the inner condition of the "empty" check
TypeNeedsValue(nflags) ==
  \/ Has(nflags, TypeString)
  \/ Has(nflags, TypePathFile)
  \/ Has(nflags, TypePathRegularFile)
  \/ Has(nflags, TypePathDir)
  \/ Has(nflags, TypeInt)
  \/ Has(nflags, TypeFloat)
  \/ Has(nflags, TypeAlphanumeric)
\* the "empty" check as a whole
IsMissing(nflags, nz, az) ==
  Has(nflags, Required) /\ (nz = <<>> /\ az = <<>>) /\ TypeNeedsValue(nflags)
\* "%s %s is missing"
MissingMessage(label, nlabel) == label \o sSpace \o nlabel \o sIsMissing

\* v := az; if nz != "" { v = nz }
SelectValue(nz, az) == IF nz # <<>> THEN nz ELSE az

\* a call of a library function on the entry the value names
Call(fn, e) == [fn |-> fn, entry |-> e]
\* the entry field of a call that does not touch the filesystem
NotAPath == Entry("n/a", FALSE, FALSE, FALSE)
Outcome(r, cs) == [ret |-> r, calls |-> cs]

\* the TypePathFile branch
CheckPathFile(v, nlabel, e) ==
  LET st == osStat(e) IN
  IF osIsNotExist(st.err)
  THEN Outcome(NewError(sFile \o v \o sFrom \o nlabel \o sDoesNotExist),
               <<Call("os.Stat", e)>>)
  ELSE Outcome(Nil, <<Call("os.Stat", e)>>)

\* the TypePathRegularFile branch
CheckPathRegularFile(nflags, v, nlabel, e) ==
  LET st == osStat(e) IN
  IF osIsNotExist(st.err)
  THEN Outcome(NewError(sFile \o v \o sFrom \o nlabel \o sDoesNotExist),
               <<Call("os.Stat", e)>>)
  ELSE IF st.info = "nil"
  THEN Outcome(Panic, <<Call("os.Stat", e)>>)          \* fileInfo.Mode() on nil
  ELSE IF st.info # "regular"
  THEN Outcome(NewError(sPath \o v \o sFrom \o nlabel \o sNotRegular),
               <<Call("os.Stat", e)>>)
  ELSE IF Has(nflags, ValidJSON)
  THEN LET rd == osReadFile(e) IN
       IF rd.err # "nil"
       THEN Outcome(NewError(v \o sSpace \o nlabel \o sCannotBeOpened),
                    <<Call("os.Stat", e), Call("os.ReadFile", e)>>)
       ELSE IF ~jsonValid(rd.dat)
       THEN Outcome(NewError(v \o sSpace \o nlabel \o sNotValidJSON),
                    <<Call("os.Stat", e), Call("os.ReadFile", e), Call("json.Valid", e)>>)
       ELSE Outcome(Nil,
                    <<Call("os.Stat", e), Call("os.ReadFile", e), Call("json.Valid", e)>>)
  ELSE Outcome(Nil, <<Call("os.Stat", e)>>)

\* the TypePathDir branch
CheckPathDir(v, nlabel, e) ==
  LET st == osStat(e) IN
  IF osIsNotExist(st.err)
  THEN Outcome(NewError(sDirectory \o v \o sFrom \o nlabel \o sDoesNotExist),
               <<Call("os.Stat", e)>>)
  ELSE IF st.info = "nil"
  THEN Outcome(Panic, <<Call("os.Stat", e)>>)          \* fileInfo.IsDir() on nil
  ELSE IF st.info # "dir"
  THEN Outcome(NewError(sPath \o v \o sFrom \o nlabel \o sNotDirectory),
               <<Call("os.Stat", e)>>)
  ELSE Outcome(Nil, <<Call("os.Stat", e)>>)

\* the character class of the alphanumeric pattern
AlphanumericClass(nflags) ==
  IF Has(nflags, AllowHyphen) /\ Has(nflags, AllowUnderscore) /\ Has(nflags, AllowDots)
  THEN AlphaNum \cup {"_", ".", "-"}
  ELSE IF Has(nflags, AllowUnderscore) /\ Has(nflags, AllowDots)
  THEN AlphaNum \cup {"_", "."}
  ELSE IF Has(nflags, AllowUnderscore) /\ Has(nflags, AllowHyphen)
  THEN AlphaNum \cup {"_", "-"}
  ELSE IF Has(nflags, AllowDots) /\ Has(nflags, AllowHyphen)
  THEN AlphaNum \cup {".", "-"}
  ELSE IF Has(nflags, AllowUnderscore)
  THEN AlphaNum \cup {"_"}
  ELSE IF Has(nflags, AllowDots)
  THEN AlphaNum \cup {"."}
  ELSE AlphaNum

\* variant: the float pattern is tried before the integer pattern
ReTypeFloatFirst(nflags) ==
  IF Has(nflags, TypeFloat)
  THEN <<ReRange(Digits, 1, FloatMaxDigits), ReLit("."), ReRange(Digits, 1, FloatMaxDigits)>>
  ELSE IF Has(nflags, TypeInt) THEN <<RePlus(Digits)>>
  ELSE IF Has(nflags, TypeAlphanumeric) THEN <<RePlus(AlphanumericClass(nflags))>>
  ELSE <<>>

\* reType: the pattern of one value; "" when no numeric or alphanumeric type
ReType(nflags) ==
  IF Has(nflags, TypeInt) THEN <<RePlus(Digits)>>
  ELSE IF Has(nflags, TypeFloat)
  THEN <<ReRange(Digits, 1, FloatMaxDigits), ReLit("."), ReRange(Digits, 1, FloatMaxDigits)>>
  ELSE IF Has(nflags, TypeAlphanumeric) THEN <<RePlus(AlphanumericClass(nflags))>>
  ELSE <<>>

\* variant: the semi-colon bit is tested before the colon bit
DelimiterSemiColonFirst(nflags) ==
  IF Has(nflags, ManySeparatorSemiColon) THEN ";"
  ELSE IF Has(nflags, ManySeparatorColon) THEN ":"
  ELSE ","

\* d: the separator of many values
Delimiter(nflags) ==
  IF Has(nflags, ManySeparatorColon) THEN ":"
  ELSE IF Has(nflags, ManySeparatorSemiColon) THEN ";"
  ELSE ","

\* reValue
ReValue(nflags) ==
  IF Has(nflags, AllowMany)
  THEN [first |-> ReType(nflags),
        group |-> <<ReLit(Delimiter(nflags))>> \o ReType(nflags),
        star |-> TRUE]
  ELSE [first |-> ReType(nflags), group |-> <<>>, star |-> FALSE]

\* the pattern check that ends the function
CheckPattern(nflags, v, label, nlabel) ==
  LET r == regexpMatchString(ReValue(nflags), v) IN
  IF r.err # "nil" \/ ~r.m
  THEN Outcome(NewError(label \o sSpace \o nlabel \o sHasInvalidValue),
               <<Call("regexp.MatchString", NotAPath)>>)
  ELSE Outcome(Nil, <<Call("regexp.MatchString", NotAPath)>>)

\* ValidateValue(isArg, nz, az), run while the value names the entry e
ValidateValue(f, isArg, nz, az, e) ==
  LET label == Label(isArg)
      nlabel == NLabel(f, isArg)
      v == SelectValue(nz, az)
  IN
  IF BothPassed(nz, az) THEN Outcome(NewError(BothPassedMessage(f)), <<>>)
  ELSE IF IsMissing(f.nflags, nz, az)
  THEN Outcome(NewError(MissingMessage(label, nlabel)), <<>>)
  ELSE IF Has(f.nflags, TypeString) THEN Outcome(Nil, <<>>)
  ELSE IF Has(f.nflags, Required) \/ v # <<>>
  THEN IF Has(f.nflags, TypePathFile) THEN CheckPathFile(v, nlabel, e)
       ELSE IF Has(f.nflags, TypePathRegularFile)
       THEN CheckPathRegularFile(f.nflags, v, nlabel, e)
       ELSE IF Has(f.nflags, TypePathDir) THEN CheckPathDir(v, nlabel, e)
       ELSE CheckPattern(f.nflags, v, label, nlabel)
  ELSE Outcome(Nil, <<>>)

\* ---- the state machine --------------------------------------------------
VARIABLES
  c,      \* the CLIFlag
  op,     \* the method the caller is back from ("idle": none, it may call)
  args,   \* its arguments
  ret,    \* what it returned
  calls   \* the library calls it made, in order
vars == <<c, op, args, ret, calls>>

AllBits ==
  {Required, TypeString, TypePathFile, TypeBool, TypeInt, TypeFloat,
   TypeAlphanumeric, MustExist, AllowMany, ManySeparatorColon,
   ManySeparatorSemiColon, AllowDots, AllowUnderscore, AllowHyphen,
   TypeEmail, TypeFQDN, TypePathDir, TypePathRegularFile, ValidJSON}

RECURSIVE Or(_)
\* b1|b2|... of distinct bits
Or(S) == IF S = {} THEN 0 ELSE LET b == CHOOSE x \in S : TRUE IN b + Or(S \ {b})

RECURSIVE BitSets(_, _)
\* the sets of at most k bits of B
BitSets(B, k) ==
  IF k = 0 THEN {{}}
  ELSE LET less == BitSets(B, k - 1) IN
       less \cup {s \cup {b} : s \in less, b \in B}

\* the nflags values of the general specification
Masks == {Or(S) : S \in BitSets(AllBits, MaxBits)}

Names == {<<"n">>}
Aliases == {<<>>, <<"a">>}
HelpValues == {<<"V">>}
Descs == {<<"d">>}
\* the values passed by the general specification
Values == {<<>>, <<"4">>, <<"a">>, <<"4", ".", "4">>, <<"4", ",", "4">>}

NoArgs == [isArg |-> FALSE, nz |-> <<>>, az |-> <<>>]
Bool(b) == [kind |-> IF b THEN "true" ELSE "false", msg |-> <<>>]
String(s) == [kind |-> "string", msg |-> s]

Init ==
  /\ \E n \in Names, a \in Aliases, hv \in HelpValues, d \in Descs, nf \in Masks :
       c = NewCLIFlag(n, a, hv, d, nf)
  /\ op = "idle"
  /\ args = NoArgs
  /\ ret = NoValue
  /\ calls = <<>>

CallGetHelpLine ==
  /\ op = "idle"
  /\ op' = "GetHelpLine"
  /\ args' = NoArgs
  /\ ret' = String(GetHelpLine(c))
  /\ calls' = <<>>
  /\ UNCHANGED c

CallIsRequireValue ==
  /\ op = "idle"
  /\ op' = "IsRequireValue"
  /\ args' = NoArgs
  /\ ret' = Bool(IsRequireValue(c))
  /\ calls' = <<>>
  /\ UNCHANGED c

\* one call of ValidateValue with arguments and a filesystem from the given sets
ValidateValueFrom(IA, NZ, AZ, ES) ==
  /\ op = "idle"
  /\ \E isArg \in IA, nz \in NZ, az \in AZ, e \in ES :
       LET r == ValidateValue(c, isArg, nz, az, e) IN
       /\ op' = "ValidateValue"
       /\ args' = [isArg |-> isArg, nz |-> nz, az |-> az]
       /\ ret' = r.ret
       /\ calls' = r.calls
       /\ UNCHANGED c

CallValidateValue == ValidateValueFrom(BOOLEAN, Values, Values, Entries)

\* the caller has used the result and may call again; a panic ends the program
Resume ==
  /\ op # "idle"
  /\ ret.kind # "panic"
  /\ op' = "idle"
  /\ args' = NoArgs
  /\ ret' = NoValue
  /\ calls' = <<>>
  /\ UNCHANGED c

Next == CallGetHelpLine \/ CallIsRequireValue \/ CallValidateValue \/ Resume
Spec == Init /\ [][Next]_vars

\* ---- the pattern specification: numeric and alphanumeric flags on every
\* ---- short string over the characters the patterns tell apart
PatternTypes == {TypeInt, TypeAlphanumeric}
PatternModifiers ==
  {Required, AllowMany, ManySeparatorColon, ManySeparatorSemiColon,
   AllowDots, AllowUnderscore, AllowHyphen}
PatternMasks == {t + Or(M) : t \in PatternTypes, M \in BitSets(PatternModifiers, MaxBits)}
PatternAlphabet == {"4", "a", ".", "_", "-", ",", ":", ";"}

RECURSIVE Strings(_)
\* the strings of at most n characters of the alphabet
Strings(n) ==
  IF n = 0 THEN {<<>>}
  ELSE LET shorter == Strings(n - 1) IN
       shorter \cup {Append(s, ch) : s \in shorter, ch \in PatternAlphabet}
PatternValues == Strings(MaxLen)
\* the value of a pattern flag names nothing on disk
PatternEntries == {Entry("none", TRUE, FALSE, FALSE)}

InitPattern ==
  /\ \E n \in Names, hv \in HelpValues, d \in Descs, nf \in PatternMasks :
       c = NewCLIFlag(n, <<"a">>, hv, d, nf)
  /\ op = "idle"
  /\ args = NoArgs
  /\ ret = NoValue
  /\ calls = <<>>

\* --name value
CallValidateValueByName == ValidateValueFrom({FALSE}, PatternValues, {<<>>}, PatternEntries)
\* -alias value
CallValidateValueByAlias == ValidateValueFrom({FALSE}, {<<>>}, PatternValues, PatternEntries)

NextPattern == CallValidateValueByName \/ CallValidateValueByAlias \/ Resume
SpecPattern == InitPattern /\ [][NextPattern]_vars

\* ---- vocabulary of the properties ---------------------------------------
ValueTypeBits ==
  {TypeString, TypePathFile, TypePathRegularFile, TypePathDir, TypeInt,
   TypeFloat, TypeAlphanumeric}
TypeBits == ValueTypeBits \cup {TypeBool, TypeEmail, TypeFQDN}
\* the type bits set in a bitmask
TypesOf(nflags) == {b \in TypeBits : Has(nflags, b)}
Validated == op = "ValidateValue"
\* exactly one of --name and -alias carries a value
OneValue == (args.nz = <<>>) # (args.az = <<>>)
TheValue == IF args.nz # <<>> THEN args.nz ELSE args.az
\* the call consulted the filesystem; the entry it found
Statted == calls # <<>> /\ calls[1].fn = "os.Stat"
FnsCalled == {calls[i].fn : i \in 1..Len(calls)}
IdOf(isArg) == IF isArg THEN c.helpValue ELSE c.name

\* C1: when both nz and az are non-empty, ValidateValue returns the error
\* "Both -<alias> and --<name> passed" whatever the bitmask and isArg, and
\* has made no filesystem access and no pattern match.
C1_BothFormsRejected ==
  (Validated /\ args.nz # <<>> /\ args.az # <<>>)
    => /\ ret = NewError(sBoth \o c.alias \o sAndName \o c.name \o sPassed)
       /\ calls = <<>>
C1_Witness ==
  /\ Validated /\ args.nz # <<>> /\ args.az # <<>>
  /\ Has(c.nflags, TypePathRegularFile) /\ Has(c.nflags, ValidJSON)
  /\ c.alias # <<>>
  /\ ret.kind = "error"

\* C2: a Required flag with a value-requiring type bit, called with nz and az
\* both empty, returns "<label> <id> is missing" (Flag and the name, or
\* Argument and the helpValue when isArg) without touching the filesystem.
C2_MissingRequired ==
  (/\ Validated
   /\ Has(c.nflags, Required)
   /\ TypesOf(c.nflags) \cap ValueTypeBits # {}
   /\ args.nz = <<>> /\ args.az = <<>>)
    => /\ ret = NewError((IF args.isArg THEN sArgument ELSE sFlag) \o sSpace
                         \o IdOf(args.isArg) \o sIsMissing)
       /\ calls = <<>>
C2_Witness ==
  /\ Validated /\ args.isArg
  /\ Has(c.nflags, Required) /\ Has(c.nflags, TypePathDir)
  /\ args.nz = <<>> /\ args.az = <<>>
  /\ ret.kind = "error"

\* the characters an Alphanumeric flag is documented to take
C3_Allowed(nflags) ==
  AlphaNum \cup (IF Has(nflags, AllowDots) THEN {"."} ELSE {})
           \cup (IF Has(nflags, AllowUnderscore) THEN {"_"} ELSE {})
           \cup (IF Has(nflags, AllowHyphen) THEN {"-"} ELSE {})
\* C3: for a flag whose only type bit is Alphanumeric, without AllowMany, and
\* any subset of AllowDots, AllowUnderscore, AllowHyphen, a single non-empty
\* value succeeds iff each of its characters is alphanumeric or one of
\* '.', '_', '-' whose Allow bit is set; it fails with "has invalid value".
C3_AlphanumericAdditive ==
  (/\ Validated /\ OneValue
   /\ TypesOf(c.nflags) = {TypeAlphanumeric}
   /\ ~Has(c.nflags, AllowMany))
    => /\ (ret = Nil) <=> AllIn(TheValue, C3_Allowed(c.nflags))
       /\ ret # Nil =>
            ret = NewError(Label(args.isArg) \o sSpace \o IdOf(args.isArg)
                           \o sHasInvalidValue)

\* C4: a flag whose only type bit is Email, FQDN or Bool accepts every single
\* non-empty value as it is.
C4_UncheckedTypesAccepted ==
  (/\ Validated /\ OneValue
   /\ Cardinality(TypesOf(c.nflags)) = 1
   /\ TypesOf(c.nflags) \subseteq {TypeEmail, TypeFQDN, TypeBool})
    => ret = Nil

\* the delimiter the modifier bits select
C5_Delimiter(nflags) ==
  IF Has(nflags, ManySeparatorColon) THEN ":"
  ELSE IF Has(nflags, ManySeparatorSemiColon) THEN ";" ELSE ","
\* v is non-empty digit runs with exactly one d between consecutive runs
C5_DigitRuns(v, d) ==
  /\ v # <<>>
  /\ \A i \in 1..Len(v) : v[i] \in Digits \/ v[i] = d
  /\ v[1] # d /\ v[Len(v)] # d
  /\ \A i \in 1..(Len(v) - 1) : ~(v[i] = d /\ v[i + 1] = d)
\* C5: an Int flag with AllowMany accepts a single non-empty value iff it is
\* digit runs joined by single delimiters (':' with ManySeparatorColon, else
\* ';' with ManySeparatorSemiColon, else ','); without AllowMany a value that
\* holds a delimiter fails.
C5_IntMany ==
  (/\ Validated /\ OneValue
   /\ Has(c.nflags, TypeInt)
   /\ TypesOf(c.nflags) \cap {TypeString, TypePathFile, TypePathRegularFile, TypePathDir} = {})
    => IF Has(c.nflags, AllowMany)
       THEN (ret = Nil) <=> C5_DigitRuns(TheValue, C5_Delimiter(c.nflags))
       ELSE (\E i \in 1..Len(TheValue) : TheValue[i] \in {",", ":", ";"}) => ret.kind = "error"
C5_Witness ==
  /\ Validated /\ OneValue
  /\ Has(c.nflags, TypeInt) /\ Has(c.nflags, AllowMany)
  /\ Has(c.nflags, ManySeparatorColon) /\ Has(c.nflags, ManySeparatorSemiColon)
  /\ TheValue = <<"4", ":", "4">>
  /\ ret = Nil

\* what the checks of a regular-file flag report for an entry, in order
C6_Expected(nflags, v, id, e) ==
  IF e.kind = "none" THEN NewError(sFile \o v \o sFrom \o id \o sDoesNotExist)
  ELSE IF e.kind # "regular" THEN NewError(sPath \o v \o sFrom \o id \o sNotRegular)
  ELSE IF ~Has(nflags, ValidJSON) THEN Nil
  ELSE IF ~(e.reachable /\ e.readable) THEN NewError(v \o sSpace \o id \o sCannotBeOpened)
  ELSE IF ~e.validJSON THEN NewError(v \o sSpace \o id \o sNotValidJSON)
  ELSE Nil
\* C6: a PathRegularFile flag (no String, no PathFile) with one non-empty
\* value reports the first failing check, in the order: does not exist, is
\* not a regular file, then with ValidJSON cannot be opened, is not a valid
\* JSON, else success; the contents are read only with ValidJSON on an
\* existing regular file.
C6_RegularFileOrder ==
  (/\ Validated /\ OneValue
   /\ Has(c.nflags, TypePathRegularFile)
   /\ ~Has(c.nflags, TypeString) /\ ~Has(c.nflags, TypePathFile))
    => /\ Statted
       /\ ret = C6_Expected(c.nflags, TheValue, IdOf(args.isArg), calls[1].entry)
       /\ "os.ReadFile" \in FnsCalled
            => Has(c.nflags, ValidJSON) /\ calls[1].entry.kind = "regular"

\* C7: with exactly one type bit set, IsRequireValue is false iff it is Bool.
C7_OnlyBoolNeedsNoValue ==
  (op = "IsRequireValue" /\ Cardinality(TypesOf(c.nflags)) = 1)
    => (ret.kind = "false" <=> TypesOf(c.nflags) = {TypeBool})

\* C8: a PathFile flag (no String) with one non-empty value returns
\* "File <v> from <id> does not exist" when the path does not exist and
\* success when it exists as any kind of entry, with or without MustExist.
C8_PathFileExists ==
  (/\ Validated /\ OneValue
   /\ Has(c.nflags, TypePathFile) /\ ~Has(c.nflags, TypeString))
    => /\ Statted
       /\ ret = IF calls[1].entry.kind = "none"
                THEN NewError(sFile \o TheValue \o sFrom \o IdOf(args.isArg) \o sDoesNotExist)
                ELSE Nil
       /\ LET other == IF Has(c.nflags, MustExist) THEN c.nflags - MustExist
                       ELSE c.nflags + MustExist
          IN ret = ValidateValue([c EXCEPT !.nflags = other], args.isArg,
                                 args.nz, args.az, calls[1].entry).ret

\* the precedence of the type bits
C9_Precedence ==
  <<TypeString, TypePathFile, TypePathRegularFile, TypePathDir, TypeInt,
    TypeFloat, TypeAlphanumeric>>
\* the first bit of the precedence that is set
C9_Top(nflags) ==
  C9_Precedence[CHOOSE i \in 1..Len(C9_Precedence) :
                  /\ Has(nflags, C9_Precedence[i])
                  /\ \A j \in 1..(i - 1) : ~Has(nflags, C9_Precedence[j])]
\* the bitmask with every type bit cleared but the first in precedence
C9_Reduced(nflags) == nflags - Or(TypesOf(nflags)) + C9_Top(nflags)
\* C9: with several type bits set the result is that of the bitmask keeping
\* only the first set bit of String > PathFile > PathRegularFile > PathDir >
\* Int > Float > Alphanumeric, for every argument and filesystem state.
C9_TypePrecedence ==
  (Validated /\ TypesOf(c.nflags) \cap ValueTypeBits # {})
    => \A e \in (IF Statted THEN {calls[1].entry} ELSE Entries) :
         ValidateValue([c EXCEPT !.nflags = C9_Reduced(c.nflags)],
                       args.isArg, args.nz, args.az, e).ret = ret
C9_Witness ==
  /\ Validated /\ OneValue
  /\ Has(c.nflags, TypeInt) /\ Has(c.nflags, TypeFloat)
  /\ TheValue = <<"4">>
  /\ ret = Nil

\* C10: ValidateValue always returns success or an error value, whatever
\* stat reports; in particular it never uses file info stat did not return.
C10_NeverPanics == Validated => ret.kind \in {"nil", "error"}
====
